---------------------------- MODULE Spec2Model ----------------------------
(***************************************************************************)
(* A model of the osaurus helper scripts:                                  *)
(*   scripts/ingest_locomo.py             (Spec:     main + ingest_sample) *)
(*   scripts/ingest_locomo.py pair_turns  (SpecPair)                       *)
(*   scripts/generate_acknowledgements.py (SpecAck)                        *)
(* Python strings that the code inspects (dictionary keys, identities) are *)
(* sequences of one-character strings, so that startswith, "in", split,    *)
(* int and the string order are computed and not assumed.                  *)
(***************************************************************************)
EXTENDS Integers, Sequences, FiniteSets, TLC

VARIABLES
    \* ---- ingest_locomo.py: main and ingest_sample
    args,            \* parsed command line: samples (<<>> is None), delay, chunks_only
    data,            \* json.load(f): the samples of the file, each its conversation's keys in order
    samples,         \* main's `samples` after the optional cap
    i,               \* main's loop: number of samples entered so far
    session_keys,    \* ingest_sample's sorted session keys of the current sample
    k,               \* position of `sk` in session_keys (0 before the first)
    attempt,         \* `attempt` of range(5)
    wait,            \* `wait` of the backoff sleep
    total_turns,     \* ingest_sample's accumulator
    grand_total,     \* main's accumulator
    pc,              \* where the (single) thread of control is
    inflight,        \* requests handed to client.post that have not returned
    \* ---- history of the run (not read by the program)
    outcome,         \* per sample and key: how its request was resolved
    nposts,          \* POSTs issued for the current session
    ntimeouts,       \* timeouts seen for the current session
    nbackoffs,       \* backoff sleeps completed for the current session
    slept,           \* seconds slept since the last session was resolved
    resolution,      \* how the current session's retry loop ended ("none" while it runs)
    returned,        \* the totals ingest_sample returned, in order
    \* ---- pair_turns
    turns, pairs, pi, ppc,
    \* ---- generate_acknowledgements.py
    files, fidx, dependencies, acknowledgements, apc

ivars == <<args, data, samples, i, session_keys, k, attempt, wait, total_turns,
           grand_total, pc, inflight, outcome, nposts, ntimeouts, nbackoffs,
           slept, resolution, returned>>
pvars == <<turns, pairs, pi, ppc>>
avars == <<files, fidx, dependencies, acknowledgements, apc>>
vars  == <<ivars, pvars, avars>>

---------------------------------------------------------------------------
(* Bounds of the model *)
MaxSamples  == 2     \* samples in the data file
MaxTurns    == 3     \* turns of a session handed to pair_turns
MaxPins     == 2     \* pins of one Package.resolved

(* Program constants *)
MaxAttempts    == 5      \* range(5)
BackoffStep    == 5      \* wait = 5 * (attempt + 1)
ChunksTimeout  == 30
FullTimeout    == 300
RevisionPrefix == 8      \* revision[:8]

---------------------------------------------------------------------------
(* Python helpers on strings (sequences of characters), lists and dicts *)

\* s.startswith(p)
StartsWith(s, p) == Len(s) >= Len(p) /\ SubSeq(s, 1, Len(p)) = p

\* sub in s
Contains(s, sub) ==
    \E n \in 1..(Len(s) - Len(sub) + 1) : SubSeq(s, n, n + Len(sub) - 1) = sub

\* s.split(c) for a one-character separator c
RECURSIVE SplitFrom(_, _, _)
SplitFrom(s, c, cur) ==
    IF s = <<>> THEN <<cur>>
    ELSE IF Head(s) = c THEN <<cur>> \o SplitFrom(Tail(s), c, <<>>)
    ELSE SplitFrom(Tail(s), c, Append(cur, Head(s)))
Split(s, c) == SplitFrom(s, c, <<>>)

Digits == <<"0", "1", "2", "3", "4", "5", "6", "7", "8", "9">>
DigitVal(c) == (CHOOSE n \in 1..Len(Digits) : Digits[n] = c) - 1

\* int(s) of a string of decimal digits
RECURSIVE IntOf(_)
IntOf(s) ==
    IF s = <<>> THEN 0
    ELSE IntOf(SubSeq(s, 1, Len(s) - 1)) * 10 + DigitVal(s[Len(s)])

\* seq[:n] (n may be negative, as in Python)
SliceTo(seq, n) ==
    IF n >= 0 THEN SubSeq(seq, 1, IF n < Len(seq) THEN n ELSE Len(seq))
    ELSE SubSeq(seq, 1, IF Len(seq) + n > 0 THEN Len(seq) + n ELSE 0)

\* d.get(key, default) for a dict d given as a set of <<key, value>> pairs
DictGet(d, key, default) ==
    IF \E kv \in d : kv[1] = key
    THEN (CHOOSE kv \in d : kv[1] = key)[2]
    ELSE default

---------------------------------------------------------------------------
(* scripts/ingest_locomo.py: ingest_sample and main *)

SESSION_  == <<"s", "e", "s", "s", "i", "o", "n", "_">>
DATE_TIME == <<"d", "a", "t", "e", "_", "t", "i", "m", "e">>
SPEAKER_A == <<"s", "p", "e", "a", "k", "e", "r", "_", "a">>
SessionKey(num)  == SESSION_ \o num
DateTimeKey(num) == SESSION_ \o num \o <<"_">> \o DATE_TIME

\* The conversations a sample of the data file may hold: the keys of the
\* "conversation" object in file order (session_10 comes before session_9 in
\* the file and in the string order, and after it in the numeric order).
Conversations ==
    << <<SPEAKER_A, SessionKey(<<"1", "0">>), DateTimeKey(<<"1", "0">>),
         SessionKey(<<"9">>)>>,
       <<>> >>

DataFiles ==
    UNION { { [n \in 1..len |-> Conversations[c[n]]] :
                c \in [1..len -> 1..Len(Conversations)] } : len \in 0..MaxSamples }

Delays == {0, 1}
SamplesArgs == {<<>>} \cup { <<n>> : n \in 0..MaxSamples }

\* The JSON bodies a 2xx response may carry: with no turns_ingested field, or
\* with a count
IngestedCounts == {2}
Bodies == {{}} \cup { {<<"turns_ingested", n>>} : n \in IngestedCounts }

\* k.startswith("session_") and "date_time" not in k
IsSessionKey(key) == StartsWith(key, SESSION_) /\ ~Contains(key, DATE_TIME)

\* x.split("_")[1]
SessionNum(key) == Split(key, "_")[2]

\* key=lambda x: int(x.split("_")[1])
SortKey(key) == IntOf(SessionNum(key))

RECURSIVE InsertByKey(_, _)
InsertByKey(x, sorted) ==
    IF sorted = <<>> THEN <<x>>
    ELSE IF SortKey(x) < SortKey(Head(sorted)) THEN <<x>> \o sorted
    ELSE <<Head(sorted)>> \o InsertByKey(x, Tail(sorted))

\* sorted(seq, key=SortKey): stable
RECURSIVE SortedByKey(_)
SortedByKey(seq) ==
    IF seq = <<>> THEN <<>>
    ELSE InsertByKey(seq[Len(seq)], SortedByKey(SubSeq(seq, 1, Len(seq) - 1)))

\* (the keys in file order, the sort forgotten)
SessionKeys_unsorted(conv) == SelectSeq(conv, IsSessionKey)

\* session_keys = sorted([k for k in conv if ...], key=...)
SessionKeys(conv) == SortedByKey(SelectSeq(conv, IsSessionKey))

\* if args.samples: samples = samples[: args.samples]
CapSamples(all, cap) ==
    IF cap # <<>> /\ cap[1] # 0 THEN SliceTo(all, cap[1]) ELSE all

\* (a missing field counted as one turn)
TurnsIngested_one(result) == DictGet(result, "turns_ingested", 1)

\* result.get("turns_ingested", 0)
TurnsIngested(result) == DictGet(result, "turns_ingested", 0)

\* timeout = 30 if chunks_only else 300
RequestTimeout == IF args.chunks_only THEN ChunksTimeout ELSE FullTimeout

\* the payload of the current session, as far as the run depends on it
Payload ==
    [ sample          |-> i,
      conversation_id |-> <<i, SessionNum(session_keys[k])>>,
      skip_extraction |-> args.chunks_only,
      timeout         |-> RequestTimeout ]

Pending == [st |-> "pending", body |-> {}]
sk == session_keys[k]

PairIdle ==
    /\ turns = <<>> /\ pairs = <<>> /\ pi = 0 /\ ppc = "off"

AckIdle ==
    /\ files = <<>> /\ fidx = 0 /\ dependencies = <<>>
    /\ acknowledgements = <<>> /\ apc = "off"

IngestIdle ==
    /\ args = [samples |-> <<>>, delay |-> 0, chunks_only |-> FALSE]
    /\ data = <<>> /\ samples = <<>> /\ i = 0 /\ session_keys = <<>> /\ k = 0
    /\ attempt = 0 /\ wait = 0 /\ total_turns = 0 /\ grand_total = 0
    /\ pc = "off" /\ inflight = {} /\ outcome = <<>>
    /\ nposts = 0 /\ ntimeouts = 0 /\ nbackoffs = 0 /\ slept = 0
    /\ resolution = "none" /\ returned = <<>>

\* main, after parse_args and json.load
Init ==
    /\ args \in [samples : SamplesArgs, delay : Delays, chunks_only : BOOLEAN]
    /\ data \in DataFiles
    /\ samples = <<>> /\ i = 0 /\ session_keys = <<>> /\ k = 0
    /\ attempt = 0 /\ wait = 0 /\ total_turns = 0 /\ grand_total = 0
    /\ pc = "load" /\ inflight = {}
    /\ outcome = [n \in 1..Len(data) |->
                    [key \in {data[n][m] : m \in 1..Len(data[n])} |-> Pending]]
    /\ nposts = 0 /\ ntimeouts = 0 /\ nbackoffs = 0 /\ slept = 0
    /\ resolution = "none" /\ returned = <<>>
    /\ PairIdle /\ AckIdle

others == <<pvars, avars>>
hist == <<outcome, nposts, ntimeouts, nbackoffs, slept, resolution, returned>>

\* main: the cap on the samples, grand_total = 0
LoadSamples ==
    /\ pc = "load"
    /\ samples' = CapSamples(data, args.samples)
    /\ grand_total' = 0
    /\ i' = 0
    /\ pc' = "for_sample"
    /\ UNCHANGED <<args, data, session_keys, k, attempt, wait, total_turns,
                   inflight, hist, others>>

\* main: for i, sample in enumerate(samples): ingest_sample(...) up to its loop
EnterSample ==
    /\ pc = "for_sample"
    /\ i < Len(samples)
    /\ i' = i + 1
    /\ session_keys' = SessionKeys(samples[i + 1])
    /\ total_turns' = 0
    /\ k' = 0
    /\ pc' = "for_sk"
    /\ UNCHANGED <<args, data, samples, attempt, wait, grand_total, inflight,
                   hist, others>>

\* main: the loop over the samples is over
Finish ==
    /\ pc = "for_sample"
    /\ i >= Len(samples)
    /\ pc' = "done"
    /\ UNCHANGED <<args, data, samples, i, session_keys, k, attempt, wait,
                   total_turns, grand_total, inflight, hist, others>>

\* ingest_sample: for sk in session_keys: build the payload, attempt = 0
NextSession ==
    /\ pc = "for_sk"
    /\ k < Len(session_keys)
    /\ k' = k + 1
    /\ attempt' = 0
    /\ nposts' = 0 /\ ntimeouts' = 0 /\ nbackoffs' = 0 /\ resolution' = "none"
    /\ pc' = "post"
    /\ UNCHANGED <<args, data, samples, i, session_keys, wait, total_turns,
                   grand_total, inflight, outcome, slept, returned, others>>

\* ingest_sample: return total_turns (its locals end here); main: grand_total += total
ReturnTotal ==
    /\ pc = "for_sk"
    /\ k >= Len(session_keys)
    /\ grand_total' = grand_total + total_turns
    /\ returned' = Append(returned, total_turns)
    /\ session_keys' = <<>> /\ k' = 0 /\ attempt' = 0
    /\ nposts' = 0 /\ ntimeouts' = 0 /\ nbackoffs' = 0 /\ resolution' = "none"
    /\ pc' = IF args.delay > 0 THEN "sleep_delay" ELSE "for_sample"
    /\ UNCHANGED <<args, data, samples, i, wait, total_turns, inflight,
                   outcome, slept, others>>

\* main: time.sleep(args.delay)
Delay ==
    /\ pc = "sleep_delay"
    /\ slept' = slept + args.delay
    /\ pc' = "for_sample"
    /\ UNCHANGED <<args, data, samples, i, session_keys, k, attempt, wait,
                   total_turns, grand_total, inflight, outcome, nposts,
                   ntimeouts, nbackoffs, resolution, returned, others>>

\* client.post(...) is called: the request is on the wire
Post ==
    /\ pc = "post"
    /\ inflight' = inflight \cup {Payload}
    /\ nposts' = nposts + 1
    /\ pc' = "inflight"
    /\ UNCHANGED <<args, data, samples, i, session_keys, k, attempt, wait,
                   total_turns, grand_total, outcome, ntimeouts, nbackoffs,
                   slept, resolution, returned, others>>

\* a 2xx response: total_turns += result.get("turns_ingested", 0); break
RespondOK ==
    /\ pc = "inflight"
    /\ \E body \in Bodies :
         /\ total_turns' = total_turns + TurnsIngested(body)
         /\ outcome' = [outcome EXCEPT ![i][sk] = [st |-> "ok", body |-> body]]
    /\ inflight' = {}
    /\ slept' = 0 /\ resolution' = "ok"
    /\ pc' = "for_sk"
    /\ UNCHANGED <<args, data, samples, i, session_keys, k, attempt, wait,
                   grand_total, nposts, ntimeouts, nbackoffs, returned, others>>

\* httpx.ReadTimeout / httpx.ConnectTimeout: wait = 5 * (attempt + 1)
\* (the history counts the session as resolved when its last attempt times out)
RespondTimeout ==
    /\ pc = "inflight"
    /\ inflight' = {}
    /\ ntimeouts' = ntimeouts + 1
    /\ wait' = BackoffStep * (attempt + 1)
    /\ IF attempt + 1 = MaxAttempts
       THEN /\ outcome' = [outcome EXCEPT ![i][sk] = [st |-> "failed", body |-> {}]]
            /\ slept' = 0 /\ resolution' = "exhausted"
       ELSE UNCHANGED <<outcome, slept, resolution>>
    /\ pc' = "sleep_backoff"
    /\ UNCHANGED <<args, data, samples, i, session_keys, k, attempt,
                   total_turns, grand_total, nposts, nbackoffs, returned, others>>

\* (the last timeout leaves the loop over the sessions)
BackoffDone_return ==
    /\ pc = "sleep_backoff"
    /\ slept' = slept + wait
    /\ wait' = 0
    /\ nbackoffs' = nbackoffs + 1
    /\ IF attempt + 1 < MaxAttempts
       THEN attempt' = attempt + 1 /\ pc' = "post" /\ k' = k
       ELSE attempt' = attempt /\ pc' = "for_sk" /\ k' = Len(session_keys)
    /\ UNCHANGED <<args, data, samples, i, session_keys, total_turns,
                   grand_total, inflight, outcome, nposts, ntimeouts, resolution,
                   returned, others>>

\* time.sleep(wait); if attempt == 4: print FAILED; the next round of range(5)
\* (`wait` is not read again before it is assigned: it is cleared here)
BackoffDone ==
    /\ pc = "sleep_backoff"
    /\ slept' = slept + wait
    /\ wait' = 0
    /\ nbackoffs' = nbackoffs + 1
    /\ IF attempt + 1 < MaxAttempts
       THEN attempt' = attempt + 1 /\ pc' = "post"
       ELSE attempt' = attempt /\ pc' = "for_sk"
    /\ UNCHANGED <<args, data, samples, i, session_keys, k, total_turns,
                   grand_total, inflight, outcome, nposts, ntimeouts, resolution,
                   returned, others>>

\* (the status error handled like a timeout)
RespondHTTPError_retry ==
    /\ pc = "inflight"
    /\ inflight' = {}
    /\ outcome' = [outcome EXCEPT ![i][sk] = [st |-> "failed", body |-> {}]]
    /\ resolution' = "http"
    /\ wait' = BackoffStep * (attempt + 1)
    /\ pc' = "sleep_backoff"
    /\ UNCHANGED <<args, data, samples, i, session_keys, k, attempt,
                   total_turns, grand_total, nposts, ntimeouts, nbackoffs,
                   slept, returned, others>>

\* httpx.HTTPStatusError from raise_for_status(): print, break
RespondHTTPError ==
    /\ pc = "inflight"
    /\ inflight' = {}
    /\ outcome' = [outcome EXCEPT ![i][sk] = [st |-> "failed", body |-> {}]]
    /\ slept' = 0 /\ resolution' = "http"
    /\ pc' = "for_sk"
    /\ UNCHANGED <<args, data, samples, i, session_keys, k, attempt, wait,
                   total_turns, grand_total, nposts, ntimeouts, nbackoffs,
                   returned, others>>

\* any exception the try statement does not name (httpx.ConnectError, a body
\* that is not JSON, ...) leaves ingest_sample and main
RespondRaise ==
    /\ pc = "inflight"
    /\ inflight' = {}
    /\ pc' = "raised"
    /\ UNCHANGED <<args, data, samples, i, session_keys, k, attempt, wait,
                   total_turns, grand_total, hist, others>>

Next ==
    \/ LoadSamples \/ EnterSample \/ Finish \/ NextSession \/ ReturnTotal
    \/ Delay \/ Post \/ RespondOK \/ RespondTimeout \/ BackoffDone
    \/ RespondHTTPError \/ RespondRaise

Spec == Init /\ [][Next]_vars

---------------------------------------------------------------------------
(* Properties of the ingestion run *)

Min(a, b) == IF a < b THEN a ELSE b

RECURSIVE SumSeq(_)
SumSeq(seq) == IF seq = <<>> THEN 0 ELSE Head(seq) + SumSeq(Tail(seq))

\* what a successful response reported, a missing field counting as 0
Reported(body) ==
    IF body = {} THEN 0 ELSE (CHOOSE kv \in body : kv[1] = "turns_ingested")[2]

RECURSIVE SumOkOver(_, _)
SumOkOver(n, keys) ==
    IF keys = {} THEN 0
    ELSE LET key == CHOOSE x \in keys : TRUE
         IN  (IF outcome[n][key].st = "ok" THEN Reported(outcome[n][key].body) ELSE 0)
             + SumOkOver(n, keys \ {key})

\* the sum of the turns_ingested of the sessions of sample n that succeeded
SumOk(n) == SumOkOver(n, DOMAIN outcome[n])

InSession == k \in 1..Len(session_keys)
Resolved(n, key) == outcome[n][key].st # "pending"
Attempted(n, key) ==
    \/ Resolved(n, key)
    \/ n = i /\ InSession /\ sk = key /\ nposts > 0
SessionsOf(n) == { key \in DOMAIN outcome[n] : IsSessionKey(key) }

\* every session the loop has passed, and at the end every session of every
\* sample of the run, has had its request resolved
NoSessionSkipped ==
    /\ InSession => \A j \in 1..(k - 1) : Resolved(i, session_keys[j])
    /\ pc = "done" =>
         \A n \in 1..Len(samples) : \A key \in SessionsOf(n) : Resolved(n, key)

\* C1: a session whose attempts all time out is attempted exactly 5 times, never
\* more; it is then given up without an exception, and the sessions after it are
\* still attempted: at the end of the run no session of a processed sample is
\* left without a resolved request.
C1_ExhaustedAfterFive ==
    /\ nposts <= 5
    /\ (pc = "for_sk" /\ InSession /\ ntimeouts = nposts) =>
          (nposts = 5 /\ resolution = "exhausted")
    /\ resolution = "exhausted" =>
          (nposts = 5 /\ ntimeouts = 5 /\ pc \in {"sleep_backoff", "for_sk"})
    /\ pc = "raised" => ntimeouts < nposts
    /\ NoSessionSkipped

\* the second session of a sample is on the wire right after the first one
\* exhausted its five attempts (the 25 s of its last backoff are all that was
\* slept since)
C1_Witness ==
    /\ pc = "inflight" /\ k = 2 /\ attempt = 0
    /\ outcome[i][session_keys[1]].st = "failed"
    /\ slept = 25

\* C2: after an HTTP error status the session is over at once: the thread is at
\* the loop over the sessions, nothing is in flight, the error was the one
\* attempt that did not time out, every backoff slept followed a timeout,
\* nothing was slept since, and the counters hold only what succeeded.
C2_HttpErrorNoRetry ==
    /\ resolution = "http" =>
          /\ pc = "for_sk"
          /\ inflight = {}
          /\ nposts = ntimeouts + 1
          /\ nbackoffs = ntimeouts
          /\ slept = 0
          /\ total_turns = SumOk(i)
          /\ grand_total = SumSeq(returned)
    /\ pc = "done" =>
         \A n \in 1..Len(samples) : \A key \in SessionsOf(n) : Resolved(n, key)

\* an HTTP error after two timeouts, with a session still to come
C2_Witness ==
    /\ resolution = "http" /\ ntimeouts = 2 /\ k < Len(session_keys)

\* C3 (as claimed): when the delay is positive, at the first POST of a session
\* that is not the first of its sample, at least the delay was slept since the
\* session before it was resolved.
C3_DelayBetweenSessions ==
    (args.delay > 0 /\ pc = "inflight" /\ attempt = 0 /\ k > 1) =>
        slept >= args.delay

\* C4 (as claimed): a backoff wait follows the k-th timeout with 5*k seconds,
\* and only when an attempt k+1 is still to come (k < 5).
C4_BackoffOnlyBetweenAttempts ==
    pc = "sleep_backoff" => (wait = 5 * ntimeouts /\ ntimeouts < 5)

\* C5: at most one request is in flight; a request is made only for session
\* keys; and when a session has been attempted, every session of an earlier
\* sample, and every session of its own sample with a smaller integer suffix,
\* has been resolved.
C5_SequentialInOrder ==
    /\ Cardinality(inflight) <= 1
    /\ \A n \in 1..Len(data) : \A key \in DOMAIN outcome[n] :
         Attempted(n, key) => IsSessionKey(key)
    /\ \A m \in 1..Len(data) : \A y \in DOMAIN outcome[m] :
         (Attempted(m, y) /\ IsSessionKey(y)) =>
            \A n \in 1..m : \A x \in DOMAIN outcome[n] :
               (~Resolved(n, x) /\ IsSessionKey(x)) =>
                  ~(n < m \/ IntOf(SessionNum(x)) < IntOf(SessionNum(y)))

\* session_10 is on the wire, session_9 of the same sample resolved
C5_Witness ==
    /\ pc = "inflight"
    /\ sk = SessionKey(<<"1", "0">>)
    /\ Resolved(i, SessionKey(<<"9">>))
    /\ i = 2

\* C6: the running total of a sample is the sum of what its successful
\* sessions reported, each total returned is that sum, and the grand total is
\* the sum of the totals returned.
C6_TotalsAreSumOfSuccesses ==
    /\ (i >= 1 /\ pc # "load") => total_turns = SumOk(i)
    /\ \A n \in 1..Len(returned) : returned[n] = SumOk(n)
    /\ pc # "load" => grand_total = SumSeq(returned)

\* a finished run of two samples: one session reported a count, one carried
\* no count, one was given up
C6_Witness ==
    /\ pc = "done" /\ Len(returned) = 2 /\ grand_total > 0
    /\ \E n \in 1..2 : \E key \in SessionsOf(n) :
         outcome[n][key] = [st |-> "ok", body |-> {}]
    /\ \E n \in 1..2 : \E key \in SessionsOf(n) : outcome[n][key].st = "failed"

\* C10 (as claimed): with a cap N >= 0, no more than min(N, samples in the
\* file) samples are entered, and requests are made for those only.
C10_CapRespected ==
    (args.samples # <<>> /\ args.samples[1] >= 0) =>
        /\ i <= Min(args.samples[1], Len(data))
        /\ \A r \in inflight : r.sample <= Min(args.samples[1], Len(data))

---------------------------------------------------------------------------
(* scripts/ingest_locomo.py: pair_turns *)

Speakers == {"Caroline", "Melanie"}
Texts    == {"Hi!", "How are you?"}
Turns    == [speaker : Speakers, text : Texts]
TurnLists == UNION { [1..len -> Turns] : len \in 0..MaxTurns }

\* f"{turn['speaker']}: {turn['text']}"
Render(turn) == turn.speaker \o ": " \o turn.text

\* while i < len(turns) - 1
LoopCond(idx, list) == idx < Len(list) - 1

\* (one turn consumed per round)
NextIndex_overlap(idx) == idx + 1

\* i += 2
NextIndex(idx) == idx + 2

\* the call pair_turns(turns): pairs = [], i = 0  (pi is Python's 0-based i)
InitPair ==
    /\ turns \in TurnLists
    /\ pairs = <<>> /\ pi = 0 /\ ppc = "while"
    /\ IngestIdle /\ AckIdle

pothers == <<ivars, avars>>

\* the body of the while loop
PairBoth ==
    /\ ppc = "while"
    /\ LoopCond(pi, turns)
    /\ pairs' = Append(pairs, [user      |-> Render(turns[pi + 1]),
                               assistant |-> Render(turns[pi + 2])])
    /\ pi' = NextIndex(pi)
    /\ UNCHANGED <<turns, ppc, pothers>>

\* the loop is left with a turn over: if i < len(turns): ... "(no response)"
PairLast ==
    /\ ppc = "while"
    /\ ~LoopCond(pi, turns)
    /\ pi < Len(turns)
    /\ pairs' = Append(pairs, [user      |-> Render(turns[pi + 1]),
                               assistant |-> "(no response)"])
    /\ ppc' = "returned"
    /\ UNCHANGED <<turns, pi, pothers>>

\* the loop is left with no turn over: return pairs
PairReturn ==
    /\ ppc = "while"
    /\ ~LoopCond(pi, turns)
    /\ ~(pi < Len(turns))
    /\ ppc' = "returned"
    /\ UNCHANGED <<turns, pairs, pi, pothers>>

NextPair == PairBoth \/ PairLast \/ PairReturn

SpecPair == InitPair /\ [][NextPair]_vars

\* C7: pair_turns always comes to its return (no state of the loop is stuck),
\* and what it returns for 2n turns is the n pairs (turn 2i, turn 2i+1), for
\* 2n+1 turns those n pairs and a last pair of the final turn with the
\* assistant "(no response)", each turn rendered "speaker: text"; for no turns
\* it is the empty list.
C7_PairTurns ==
    /\ ppc = "while" => (ENABLED NextPair /\ pi <= Len(turns))
    /\ ppc = "returned" =>
         LET len == Len(turns)
             n   == len \div 2
         IN  /\ Len(pairs) = n + (len % 2)
             /\ \A j \in 0..(n - 1) :
                  /\ pairs[j + 1].user =
                        turns[2 * j + 1].speaker \o ": " \o turns[2 * j + 1].text
                  /\ pairs[j + 1].assistant =
                        turns[2 * j + 2].speaker \o ": " \o turns[2 * j + 2].text
             /\ (len % 2 = 1) =>
                  /\ pairs[n + 1].user = turns[len].speaker \o ": " \o turns[len].text
                  /\ pairs[n + 1].assistant = "(no response)"
             /\ (len = 0) => pairs = <<>>

\* three turns were paired
C7_Witness ==
    /\ ppc = "returned" /\ Len(turns) = 3 /\ Len(pairs) = 2
    /\ turns[1].speaker # turns[2].speaker

---------------------------------------------------------------------------
(* scripts/generate_acknowledgements.py *)

\* the characters of the identities, in code point order
CharOrder ==
    <<"-", "0", "1", "2", "3", "4", "5", "6", "7", "8", "9",
      "a", "b", "c", "d", "e", "f", "g", "h", "i", "j", "k", "l", "m",
      "n", "o", "p", "q", "r", "s", "t", "u", "v", "w", "x", "y", "z">>
Ord(c) == CHOOSE n \in 1..Len(CharOrder) : CharOrder[n] = c

\* a < b for Python strings
RECURSIVE StrLess(_, _)
StrLess(a, b) ==
    IF b = <<>> THEN FALSE
    ELSE IF a = <<>> THEN TRUE
    ELSE IF Head(a) = Head(b) THEN StrLess(Tail(a), Tail(b))
    ELSE Ord(Head(a)) < Ord(Head(b))

Lower ==
    <<"a", "b", "c", "d", "e", "f", "g", "h", "i", "j", "k", "l", "m",
      "n", "o", "p", "q", "r", "s", "t", "u", "v", "w", "x", "y", "z">>
Upper ==
    <<"A", "B", "C", "D", "E", "F", "G", "H", "I", "J", "K", "L", "M",
      "N", "O", "P", "Q", "R", "S", "T", "U", "V", "W", "X", "Y", "Z">>
IsLetter(c) == \E n \in 1..Len(Lower) : Lower[n] = c \/ Upper[n] = c
ToUpper(c) ==
    IF \E n \in 1..Len(Lower) : Lower[n] = c
    THEN Upper[CHOOSE n \in 1..Len(Lower) : Lower[n] = c] ELSE c
ToLower(c) ==
    IF \E n \in 1..Len(Upper) : Upper[n] = c
    THEN Lower[CHOOSE n \in 1..Len(Upper) : Upper[n] = c] ELSE c

\* identity.replace("-", " ").title()
DefaultName(identity) ==
    LET spaced == [n \in 1..Len(identity) |->
                     IF identity[n] = "-" THEN " " ELSE identity[n]]
    IN  [n \in 1..Len(spaced) |->
           IF n = 1 \/ ~IsLetter(spaced[n - 1])
           THEN ToUpper(spaced[n]) ELSE ToLower(spaced[n])]

SPARKLE   == <<"s", "p", "a", "r", "k", "l", "e">>
SWIFT_NIO == <<"s", "w", "i", "f", "t", "-", "n", "i", "o">>
YAMS      == <<"y", "a", "m", "s">>

\* two rows of the table: one for a package the lock files may pin, one for a
\* package they never pin here; "yams" has no row
KNOWN_LICENSES ==
    { <<SPARKLE, <<"MIT", "https://github.com/sparkle-project/Sparkle/blob/2.x/LICENSE",
                   "https://github.com/sparkle-project/Sparkle">> >>,
      <<SWIFT_NIO, <<"Apache 2.0", "https://github.com/apple/swift-nio/blob/main/LICENSE.txt",
                     "https://github.com/apple/swift-nio">> >> }
PACKAGE_NAMES ==
    { <<SPARKLE, <<"S", "p", "a", "r", "k", "l", "e">> >>,
      <<SWIFT_NIO, <<"S", "w", "i", "f", "t", "N", "I", "O">> >> }

\* the identities a pin may carry ("" among them)
Identities == {<<>>, SPARKLE, YAMS}
IdLists == UNION { [1..len -> Identities] : len \in 0..MaxPins }

\* d.get(key, default) for a JSON object given as a record
RecGet(d, key, default) == IF key \in DOMAIN d THEN d[key] ELSE default

\* The pin at place j of lock file f. Its location tells the place; the pins
\* of the first file carry a version and a revision, those of the second a
\* revision only, those of the third neither.
Location(f, j) == "https://example.com/file" \o ToString(f) \o "/pin" \o ToString(j)
Revision(f, j) ==
    <<Digits[f + 1], Digits[j + 1], "a", "b", "c", "d", "e", "f", "0", "1">>
VersionNo(f, j) == <<Digits[f + 1], ".", Digits[j + 1]>>
StateOf(f, j) ==
    CASE f = 1 -> [version |-> VersionNo(f, j), revision |-> Revision(f, j)]
      [] f = 2 -> [revision |-> Revision(f, j)]
      [] OTHER -> [branch |-> "main"]
PinOf(f, j, id) ==
    [identity |-> id, location |-> Location(f, j), state |-> StateOf(f, j)]

\* a lock file: absent, or a JSON document with its pins
FileChoices(f) ==
    { [exists |-> FALSE, pins |-> <<>>] } \cup
    { [exists |-> TRUE, pins |-> [j \in 1..Len(ids) |-> PinOf(f, j, ids[j])]] :
        ids \in IdLists }

\* parse_package_resolved: [] for a missing file, else data.get("pins", [])
ParsePackageResolved(file) == IF ~file.exists THEN <<>> ELSE file.pins

\* pin.get("state", {}).get("version", pin.get("state", {}).get("revision", "")[:8])
PinVersion(pin) ==
    LET state == RecGet(pin, "state", <<>>)
    IN  RecGet(state, "version",
               SliceTo(RecGet(state, "revision", <<>>), RevisionPrefix))

\* identity in dependencies (a dict kept as its items in insertion order)
HasKey(deps, identity) == \E n \in 1..Len(deps) : deps[n][1] = identity

DepOf(pin) ==
    [identity |-> RecGet(pin, "identity", <<>>),
     location |-> RecGet(pin, "location", ""),
     version  |-> PinVersion(pin)]

\* (the assignment made without the test `identity not in dependencies`)
MergePin_overwrite(deps, pin) ==
    LET identity == RecGet(pin, "identity", <<>>)
    IN  IF identity = <<>> THEN deps
        ELSE IF HasKey(deps, identity)
        THEN [n \in 1..Len(deps) |->
                IF deps[n][1] = identity THEN <<identity, DepOf(pin)>> ELSE deps[n]]
        ELSE Append(deps, <<identity, DepOf(pin)>>)

\* if identity and identity not in dependencies: dependencies[identity] = {...}
MergePin(deps, pin) ==
    LET identity == RecGet(pin, "identity", <<>>)
    IN  IF identity # <<>> /\ ~HasKey(deps, identity)
        THEN Append(deps, <<identity, DepOf(pin)>>)
        ELSE deps

\* for pin in pins: ...
RECURSIVE MergePins(_, _)
MergePins(deps, pins) ==
    IF pins = <<>> THEN deps
    ELSE MergePins(MergePin(deps, Head(pins)), Tail(pins))

RECURSIVE InsertItem(_, _)
InsertItem(item, sorted) ==
    IF sorted = <<>> THEN <<item>>
    ELSE IF StrLess(item[1], Head(sorted)[1]) THEN <<item>> \o sorted
    ELSE <<Head(sorted)>> \o InsertItem(item, Tail(sorted))

\* (the items in insertion order, the sort forgotten)
SortedItems_unsorted(deps) == deps

\* sorted(dependencies.items())
RECURSIVE SortedItems(_)
SortedItems(deps) ==
    IF deps = <<>> THEN <<>>
    ELSE InsertItem(deps[Len(deps)], SortedItems(SubSeq(deps, 1, Len(deps) - 1)))

\* KNOWN_LICENSES.get(identity): <<>> stands for None
KnownLicense(identity) == DictGet(KNOWN_LICENSES, identity, <<>>)

\* the entry built in the loop of generate_acknowledgements
Entry(identity, dep) ==
    LET license_info == KnownLicense(identity)
    IN  [name       |-> DictGet(PACKAGE_NAMES, identity, DefaultName(identity)),
         identity   |-> identity,
         version    |-> RecGet(dep, "version", <<>>),
         repository |-> RecGet(dep, "location",
                               IF license_info # <<>> THEN license_info[3] ELSE ""),
         license    |-> IF license_info # <<>> THEN license_info[1] ELSE "Unknown",
         licenseUrl |-> IF license_info # <<>> THEN license_info[2] ELSE ""]

GenerateAcknowledgements(deps) ==
    LET items == SortedItems(deps)
    IN  [n \in 1..Len(items) |-> Entry(items[n][1], items[n][2])]

\* main: the three lock files as they are on disk, dependencies = {}
InitAck ==
    /\ \E f1 \in FileChoices(1) : \E f2 \in FileChoices(2) : \E f3 \in FileChoices(3) :
         files = <<f1, f2, f3>>
    /\ fidx = 0 /\ dependencies = <<>> /\ acknowledgements = <<>> /\ apc = "scan"
    /\ IngestIdle /\ PairIdle

aothers == <<ivars, pvars>>

\* get_all_dependencies: one round of `for resolved_file in resolved_files`
ScanFile ==
    /\ apc = "scan"
    /\ fidx < Len(files)
    /\ fidx' = fidx + 1
    /\ dependencies' = MergePins(dependencies, ParsePackageResolved(files[fidx + 1]))
    /\ UNCHANGED <<files, acknowledgements, apc, aothers>>

\* get_all_dependencies: return dependencies
ReturnDependencies ==
    /\ apc = "scan"
    /\ fidx >= Len(files)
    /\ apc' = "merged"
    /\ UNCHANGED <<files, fidx, dependencies, acknowledgements, aothers>>

\* main: acknowledgements = generate_acknowledgements(dependencies)
Generate ==
    /\ apc = "merged"
    /\ acknowledgements' = GenerateAcknowledgements(dependencies)
    /\ apc' = "generated"
    /\ UNCHANGED <<files, fidx, dependencies, aothers>>

NextAck == ScanFile \/ ReturnDependencies \/ Generate

SpecAck == InitAck /\ [][NextAck]_vars

---------------------------------------------------------------------------
(* Properties of the acknowledgements generator *)

\* the places <<f, j>> of the pins of the lock files that exist
Places ==
    { <<f, j>> \in (1..Len(files)) \X (1..MaxPins) :
        files[f].exists /\ j <= Len(files[f].pins) }
IdAt(place) == files[place[1]].pins[place[2]].identity
PlacesOf(id) == { place \in Places : IdAt(place) = id }
PinnedIds == { IdAt(place) : place \in Places } \ {<<>>}

\* the first scanned file that holds the identity
FirstFile(id) ==
    CHOOSE f \in 1..Len(files) :
        /\ \E place \in PlacesOf(id) : place[1] = f
        /\ \A place \in PlacesOf(id) : place[1] >= f
FirstInFile(id) ==
    CHOOSE place \in PlacesOf(id) :
        /\ place[1] = FirstFile(id)
        /\ \A other \in PlacesOf(id) : other[1] = place[1] => other[2] >= place[2]
LastInFile(id) ==
    CHOOSE place \in PlacesOf(id) :
        /\ place[1] = FirstFile(id)
        /\ \A other \in PlacesOf(id) : other[1] = place[1] => other[2] <= place[2]

\* what the merged entry of an identity must be when the pin at `place` wins
EntryOfPlace(id, place) ==
    LET pin == files[place[1]].pins[place[2]]
    IN  [identity |-> id, location |-> pin.location, version |-> PinVersion(pin)]

\* the merged set holds one entry for each pinned identity and for no other
\* key, and the entry of id comes from the pin at winner[id]
OnePinPerIdentity(winner) ==
    /\ \A n \in 1..Len(dependencies) : dependencies[n][1] \in PinnedIds
    /\ \A id \in PinnedIds :
         /\ Cardinality({ n \in 1..Len(dependencies) : dependencies[n][1] = id }) = 1
         /\ \A n \in 1..Len(dependencies) :
              dependencies[n][1] = id => dependencies[n][2] = EntryOfPlace(id, winner[id])

\* C8 (as claimed): one entry per identity; the first scanned file holding the
\* identity wins, and within that file the LAST of its pins with the identity.
C8_FirstFileLastPin ==
    apc = "merged" => OnePinPerIdentity([id \in PinnedIds |-> LastInFile(id)])

\* C8 (amended): one entry per (non-empty) identity; the first scanned file
\* holding the identity wins, and within that file the FIRST of its pins with
\* the identity; location and version are those of that pin.
C8_FirstFileFirstPin ==
    apc = "merged" => OnePinPerIdentity([id \in PinnedIds |-> FirstInFile(id)])

\* "sparkle" is pinned twice in the first lock file and once in the second,
\* and the merged set is there
C8_Witness ==
    /\ apc = "merged"
    /\ Cardinality({ place \in PlacesOf(SPARKLE) : place[1] = 1 }) = 2
    /\ \E place \in PlacesOf(SPARKLE) : place[1] = 2
    /\ \E n \in 1..Len(dependencies) : dependencies[n][1] = SPARKLE

\* C9: the acknowledgements are one entry per identity of the merged set and
\* none besides, in strictly ascending identity order; an identity without a
\* row in the license table has license "Unknown" and an empty licenseUrl, one
\* with a row has the row's license and URL.
C9_OneEntryPerIdentity ==
    apc = "generated" =>
        /\ Len(acknowledgements) = Len(dependencies)
        /\ { acknowledgements[n].identity : n \in 1..Len(acknowledgements) }
              = { dependencies[n][1] : n \in 1..Len(dependencies) }
        /\ \A a \in 1..Len(acknowledgements) : \A b \in 1..Len(acknowledgements) :
              a < b => StrLess(acknowledgements[a].identity, acknowledgements[b].identity)
        /\ \A n \in 1..Len(acknowledgements) :
              LET ack == acknowledgements[n]
                  rows == { row \in KNOWN_LICENSES : row[1] = ack.identity }
              IN  /\ rows = {} => (ack.license = "Unknown" /\ ack.licenseUrl = "")
                  /\ \A row \in rows :
                        ack.license = row[2][1] /\ ack.licenseUrl = row[2][2]

\* "yams" (no row in the table) was merged before "sparkle" (a row), both
\* were emitted, and "swift-nio" (a row, never pinned) was not
C9_Witness ==
    /\ apc = "generated"
    /\ Len(dependencies) = 2
    /\ dependencies[1][1] = YAMS /\ dependencies[2][1] = SPARKLE
    /\ acknowledgements[1].license = "MIT"
    /\ acknowledgements[2].license = "Unknown"
    /\ \A n \in 1..Len(acknowledgements) : acknowledgements[n].identity # SWIFT_NIO

===========================================================================
